---- MODULE Spec2Model ----
(***************************************************************************)
(* Order / payment lifecycle of Project-Znak.                              *)
(*                                                                         *)
(* The repository holds three HTTP programs that share one PostgreSQL      *)
(* database:                                                               *)
(*   - src/unnamed/part_001      registerUserHandler, createPaymentHandler,*)
(*                               robokassaCallbackHandler                  *)
(*   - src/SQLBase/DATABASE.sql  the schema with its trigger, and the      *)
(*                               transactional handlers handleKIZRequest,  *)
(*                               handlePayment, handleUserRegistration     *)
(*   - src/internal/models/models.go  Order.CalculateTotal                 *)
(*                                                                         *)
(* The database is modelled as the committed contents of the four tables.  *)
(* A handler that runs inside a transaction keeps its uncommitted rows in  *)
(* its own record (field tx...) until Commit copies them into the tables;  *)
(* a statement executed on the pool (db.QueryRow, db.Exec) is one atomic   *)
(* step.  Sequences (SERIAL) are not transactional: a rolled back insert   *)
(* still consumes the id.                                                  *)
(*                                                                         *)
(* Table payments: the columns are the union of the DDLs (order_id of      *)
(* DATABASE.sql, user_id of createTables); robokassa_id, the column the    *)
(* callback writes, is the column DATABASE.sql:79 renames to               *)
(* transaction_id.  It is declared without UNIQUE in the only DDL that     *)
(* has it under the name the callback uses (part_001:1159).                *)
(* Tables orders and order_items carry the CHECK constraints of            *)
(* DATABASE.sql:34-53, the only DDL under which createOrderTx's            *)
(* statements are valid (it has the price column).                         *)
(*                                                                         *)
(* Amounts are whole roubles: every amount the handlers compute here is    *)
(* an integer multiple of the unit price, exact in float64.                *)
(***************************************************************************)
EXTENDS Integers, Sequences, FiniteSets, TLC

\* ------------------------------------------------------------------ bounds
\* Number of request slots per handler: every slot serves one request.
MaxReg == 2
MaxKiz == 1
MaxPay == 1
MaxCb == 2
\* Longest gtin_data list of an order request.
MaxItems == 2

\* ---------------------------------------------------------------- constants
\* prepareOrder's placeholder unit price (DATABASE.sql:417).
unitPrice == 100
\* LENGTH(gtin) = 14 (DATABASE.sql:50).
GtinLen == 14

\* Status enums (models.go:11-29, DATABASE.sql:29-31, 60-62).
OrderStatusCreated == "created"
OrderStatusPending == "pending"
OrderStatusPaid == "paid"
OrderStatuses == {"created", "pending", "paid", "processed", "completed", "cancelled", "refunded"}
PaymentStatusPending == "pending"
PaymentStatusCompleted == "completed"
PaymentStatuses == {"pending", "processing", "completed", "failed", "refunded", "cancelled"}

\* Configuration config.PaymentConfig (part_001:137-140).
RobokassaLogin == "shop"
RobokassaPass == "secret"

\* ------------------------------------------------------------ input domains
\* telegram_id values of requests: 0 is the invalid id, 1 and 2 are users.
TelegramIds == {0, 1, 2}
\* inn values of requests.
Inns == {"", "7707083893"}
\* GTINs: a well-formed one (14 characters) and a malformed one.
GoodGtin == "04602380040001"
BadGtin == "0460"
GtinLength(g) == IF g = GoodGtin THEN 14 ELSE 4
\* count values of gtin_data entries.
Counts == {-1, 0, 1, 2}
\* amount values of payment requests.
Amounts == {100, 200}
\* amount values of the payment requests whose redirect URL is called back:
\* the smallest and largest amounts printed in plain digits, and amounts printed
\* in exponent form.
SignAmounts == {0, 1, 100, 999999, 1000000, 1500000}
\* Form values of a callback.
InvIds == {"", "1", "2", "x"}
OutSums == {"", "100"}
TransactionIds == {""}
\* Shp_TransactionId values of the callbacks made from a redirect URL.
ShpTransactionIds == {"", "tx-7"}
\* SignatureValue is absent, made up, or a digest computed with the secret
\* (the one of this callback, or the one of the callback for invoice 1).
Digest(s) == "sha1(" \o s \o ")"
SignValues(outSum, invID) ==
    {"", "forged", Digest("shop:100:1:secret"), Digest("shop:" \o outSum \o ":" \o invID \o ":secret")}

NULL == "NULL"

VARIABLES
    users,        \* table users:       id -> [telegram_id, inn, api_key]
    orders,       \* table orders:      id -> [user_id, total_amount, status]
    order_items,  \* table order_items: id -> [order_id, gtin, quantity, price]
    payments,     \* table payments:    id -> [order_id, user_id, amount, status,
                  \*                            transaction_id, completed_at]
    seq,          \* the SERIAL sequences and the count of API keys drawn
    reg,          \* registration requests (registerUserHandler, handleUserRegistration)
    kiz,          \* handleKIZRequest requests
    pay,          \* payment creation requests (handlePayment, createPaymentHandler)
    cb,           \* robokassaCallbackHandler requests
    trig,         \* the last row update the trigger update_order_status saw
    limiter       \* the rate.Limiter of rateLimitMiddleware

vars == <<users, orders, order_items, payments, seq, reg, kiz, pay, cb, trig, limiter>>

db == <<users, orders, order_items, payments>>

\* ------------------------------------------------------------------ helpers
Range(f) == {f[x] : x \in DOMAIN f}

\* strconv.Itoa / fmt %d of a small non-negative integer.
Itoa(n) == <<"0", "1", "2", "3", "4", "5", "6", "7", "8", "9">>[n + 1]

\* A conversion that reads a text that is no number as 0 and reports no error.
Atoi_lenient(s) == IF \E n \in 0..9 : Itoa(n) = s THEN CHOOSE n \in 0..9 : Itoa(n) = s ELSE 0

\* strconv.Atoi on the form values the model sends: -1 stands for the error.
Atoi(s) == IF \E n \in 0..9 : Itoa(n) = s THEN CHOOSE n \in 0..9 : Itoa(n) = s ELSE -1

\* The decimal digits of n >= 0.
RECURSIVE DecStr(_)
DecStr(n) == IF n < 10 THEN Itoa(n) ELSE DecStr(n \div 10) \o Itoa(n % 10)

\* The number of decimal digits of n >= 0.
RECURSIVE NumDigits(_)
NumDigits(n) == IF n < 10 THEN 1 ELSE 1 + NumDigits(n \div 10)

\* n > 0 without its trailing zeros.
RECURSIVE StripZeros(_)
StripZeros(n) == IF n % 10 = 0 THEN StripZeros(n \div 10) ELSE n

RECURSIVE Pow10(_)
Pow10(e) == IF e = 0 THEN 1 ELSE 10 * Pow10(e - 1)

\* n >= 0 in exactly width digits, with leading zeros.
RECURSIVE PadStr(_, _)
PadStr(n, width) == IF width = 0 THEN "" ELSE PadStr(n \div 10, width - 1) \o Itoa(n % 10)

\* fmt %g of a whole amount a > 0, with the sign of the exponent written as
\* plus: the shortest digits, and the %e form d.ddde+XX when the decimal exponent
\* is 6 or more (1000000 prints as 1e+06, 1500000 as 1.5e+06).
FmtGWith(a, plus) ==
    LET exp == NumDigits(a) - 1
        m == StripZeros(a)
        frac == NumDigits(m) - 1
        lead == m \div Pow10(frac)
    IN IF exp < 6
       THEN DecStr(a)
       ELSE Itoa(lead)
            \o (IF frac = 0 THEN "" ELSE "." \o PadStr(m - lead * Pow10(frac), frac))
            \o "e" \o plus \o (IF exp < 10 THEN "0" \o Itoa(exp) ELSE DecStr(exp))

\* fmt %g of a whole amount a > 0.
FmtG(a) == FmtGWith(a, "+")

\* fmt.Sprintf("%x", sha1.Sum(...)): a collision-free digest of the signed string.
Sha1Hex(s) == "sha1(" \o s \o ")"

\* The string the callback signs: login:OutSum:InvId:password (part_001:717).
callbackSignature(outSum, invID) ==
    RobokassaLogin \o ":" \o outSum \o ":" \o invID \o ":" \o RobokassaPass

\* expectedSign of the callback (part_001:718).
expectedSign(outSum, invID) == Sha1Hex(callbackSignature(outSum, invID))

\* fmt.Sprintf("%x", sha256 of s): a collision-free digest of the signed string.
Sha256Hex(s) == "sha256(" \o s \o ")"

\* The signature createPayment puts into its payment URL: the SHA-256 of
\* login:amount:orderID:password (models.go:538-548).
createPaymentSignature(amount, orderID) ==
    Sha256Hex(RobokassaLogin \o ":" \o FmtG(amount) \o ":" \o orderID \o ":" \o RobokassaPass)

\* SELECT id FROM users WHERE telegram_id = $1; 0 when there is no row.
getUserID(telegramID) ==
    IF \E u \in DOMAIN users : users[u].telegram_id = telegramID
    THEN CHOOSE u \in DOMAIN users : users[u].telegram_id = telegramID
    ELSE 0

\* generateAPIKey / generateRandomAPIKey: 16 random bytes in hex.  A draw is a
\* value no earlier draw returned; the n-th draw is written key-n.
generateAPIKey(n) == "key-" \o Itoa(n)

\* ------------------------------------------------------------ registration
RegIdle == [pc |-> "idle", handler |-> NULL, telegram_id |-> 0, inn |-> "",
            api_key |-> NULL, exists |-> FALSE, existed |-> FALSE, prev_key |-> NULL,
            code |-> 0, user_id |-> 0]

\* The row of users with this telegram_id when the request arrives (history).
RegArrive(r, handler, t, inn) ==
    [RegIdle EXCEPT !.handler = handler, !.telegram_id = t, !.inn = inn,
                    !.existed = (getUserID(t) # 0),
                    !.prev_key = IF getUserID(t) # 0 THEN users[getUserID(t)].api_key ELSE NULL]

\* The validation that looks at the telegram_id only.
RequiredFieldsMissing_idOnly(t, inn) == t <= 0

\* The validation of both registration handlers (part_001:336-343,
\* DATABASE.sql:722-726): TRUE when the request is refused.
RequiredFieldsMissing(t, inn) == t <= 0 \/ inn = ""

\* registerUserHandler up to the existence check (part_001:317-359).
registerUserHandler_check(r, t, inn) ==
    /\ reg[r].pc = "idle"
    /\ \A q \in 1..(r - 1) : reg[q].pc # "idle"
    /\ IF RequiredFieldsMissing(t, inn)
       THEN /\ reg' = [reg EXCEPT ![r] = [RegArrive(r, "registerUserHandler", t, inn)
                                            EXCEPT !.pc = "done", !.code = 400]]
            /\ UNCHANGED seq
       ELSE /\ seq' = [seq EXCEPT !.key = @ + 1]
            /\ reg' = [reg EXCEPT ![r] = [RegArrive(r, "registerUserHandler", t, inn)
                                            EXCEPT !.pc = "check",
                                                   !.api_key = generateAPIKey(seq.key + 1),
                                                   !.exists = (getUserID(t) # 0)]]
    /\ UNCHANGED <<db, kiz, pay, cb, trig, limiter>>

\* A users table without the constraint on telegram_id.
users_telegram_id_key_absent(t) == TRUE

\* telegram_id BIGINT UNIQUE NOT NULL (part_001:1127): TRUE when a row with
\* telegram_id t can be inserted.
users_telegram_id_key(t) == getUserID(t) = 0

\* registerUserHandler's UPDATE or INSERT and its response (part_001:361-386).
registerUserHandler_save(r) ==
    /\ reg[r].pc = "check"
    /\ LET q == reg[r]
           id == getUserID(q.telegram_id)
       IN IF q.exists
          THEN \* UPDATE ... WHERE telegram_id = $5 RETURNING id
               IF id # 0
               THEN /\ users' = [users EXCEPT ![id].inn = q.inn, ![id].api_key = q.api_key]
                    /\ reg' = [reg EXCEPT ![r].pc = "done", ![r].code = 200, ![r].user_id = id]
                    /\ UNCHANGED seq
               ELSE /\ reg' = [reg EXCEPT ![r].pc = "done", ![r].code = 500]
                    /\ UNCHANGED <<users, seq>>
          ELSE \* INSERT ... RETURNING id; telegram_id is UNIQUE
               /\ seq' = [seq EXCEPT !.user = @ + 1]
               /\ IF users_telegram_id_key(q.telegram_id)
                  THEN /\ users' = (seq.user + 1) :> [telegram_id |-> q.telegram_id, inn |-> q.inn,
                                                      api_key |-> q.api_key] @@ users
                       /\ reg' = [reg EXCEPT ![r].pc = "done", ![r].code = 200,
                                             ![r].user_id = seq.user + 1]
                  ELSE /\ reg' = [reg EXCEPT ![r].pc = "done", ![r].code = 500]
                       /\ UNCHANGED users
    /\ UNCHANGED <<orders, order_items, payments, kiz, pay, cb, trig, limiter>>

\* createUserTx: INSERT INTO users ... RETURNING id inside the transaction
\* (DATABASE.sql:350-367).  TRUE when the insert succeeds.
createUserTx(t) == getUserID(t) = 0

\* handleUserRegistration: Begin, createUserTx, Commit (DATABASE.sql:700-767).
\* The transaction holds one statement and becomes visible at Commit.
handleUserRegistration(r, t, inn) ==
    /\ reg[r].pc = "idle"
    /\ \A q \in 1..(r - 1) : reg[q].pc # "idle"
    /\ IF RequiredFieldsMissing(t, inn)
       THEN /\ reg' = [reg EXCEPT ![r] = [RegArrive(r, "handleUserRegistration", t, inn)
                                            EXCEPT !.pc = "done", !.code = 400]]
            /\ UNCHANGED <<seq, users>>
       ELSE /\ seq' = [seq EXCEPT !.key = @ + 1, !.user = @ + 1]
            /\ IF createUserTx(t)
               THEN /\ users' = (seq.user + 1) :> [telegram_id |-> t, inn |-> inn,
                                                   api_key |-> generateAPIKey(seq.key + 1)] @@ users
                    /\ reg' = [reg EXCEPT ![r] = [RegArrive(r, "handleUserRegistration", t, inn)
                                                    EXCEPT !.pc = "done", !.code = 201,
                                                           !.api_key = generateAPIKey(seq.key + 1),
                                                           !.user_id = seq.user + 1]]
               ELSE /\ reg' = [reg EXCEPT ![r] = [RegArrive(r, "handleUserRegistration", t, inn)
                                                    EXCEPT !.pc = "done", !.code = 500,
                                                           !.api_key = generateAPIKey(seq.key + 1)]]
                    /\ UNCHANGED users
    /\ UNCHANGED <<orders, order_items, payments, kiz, pay, cb, trig, limiter>>

\* ------------------------------------------------------------ order assembly
\* The loop of prepareOrder over gtins[i..]: the items appended and the amount
\* added to totalAmount (DATABASE.sql:414-427).
RECURSIVE prepareOrderLoop(_, _)
prepareOrderLoop(gtins, i) ==
    IF i > Len(gtins)
    THEN [items |-> <<>>, totalAmount |-> 0]
    ELSE LET rest == prepareOrderLoop(gtins, i + 1)
             item == [gtin |-> gtins[i].gtin, quantity |-> gtins[i].count, price |-> unitPrice]
         IN [items |-> <<item>> \o rest.items,
             totalAmount |-> gtins[i].count * unitPrice + rest.totalAmount]

\* prepareOrder with "totalAmount = ..." in place of "totalAmount += ...": the
\* total is the amount of the last entry.
prepareOrder_assign(telegramID, gtins) ==
    LET loop == prepareOrderLoop(gtins, 1)
    IN [order |-> [user_id |-> 0,
                   total_amount |-> IF gtins = <<>> THEN 0
                                    ELSE gtins[Len(gtins)].count * unitPrice,
                   status |-> OrderStatusCreated],
        items |-> loop.items]

\* prepareOrder (DATABASE.sql:403-433): the order header and its items.
prepareOrder(telegramID, gtins) ==
    LET loop == prepareOrderLoop(gtins, 1)
    IN [order |-> [user_id |-> 0, total_amount |-> loop.totalAmount,
                   status |-> OrderStatusCreated],
        items |-> loop.items]

\* Order.CalculateTotal (models.go:162-172): items without a positive price are skipped.
RECURSIVE CalculateTotal(_)
CalculateTotal(items) ==
    IF items = <<>> THEN 0
    ELSE (IF Head(items).price > 0 THEN Head(items).quantity * Head(items).price ELSE 0)
         + CalculateTotal(Tail(items))

\* CHECK (total_amount > 0) of table orders (DATABASE.sql:37).
OrderRowValid(row) == row.total_amount > 0

\* OrderItem.Validate (models.go:92-102): TRUE when it returns nil.
ItemValidate(item) == item.gtin # "" /\ item.quantity > 0

\* Order.Validate (models.go:117-138): TRUE when it returns nil.
OrderValidate(order, items) ==
    /\ order.user_id > 0
    /\ Len(items) # 0
    /\ \A n \in 1..Len(items) : ItemValidate(items[n])
    /\ order.total_amount > 0

\* Table order_items without CHECK (quantity > 0).
ItemRowValid_anyQuantity(row) == GtinLength(row.gtin) = GtinLen /\ row.price >= 0

\* CHECK (LENGTH(gtin) = 14), CHECK (quantity > 0), CHECK (price >= 0) of table
\* order_items (DATABASE.sql:50-52).
ItemRowValid(row) == GtinLength(row.gtin) = GtinLen /\ row.quantity > 0 /\ row.price >= 0

\* --------------------------------------------------------- handleKIZRequest
NoOrder == [user_id |-> 0, total_amount |-> 0, status |-> NULL]

NoResponse == [order_id |-> 0, status |-> NULL, kizs |-> <<>>]

\* user_id is 0 until getUserID found the user; order and items are what
\* prepareOrder returned; tx_order and tx_items are the rows the open
\* transaction has inserted; headerInserted records that the INSERT INTO orders
\* succeeded.
KizIdle == [pc |-> "idle", telegram_id |-> 0, gtins |-> <<>>, user_id |-> 0,
            txOpen |-> FALSE, order |-> NoOrder, items |-> <<>>, order_id |-> 0,
            tx_order |-> NoOrder, tx_items |-> <<>>, headerInserted |-> FALSE,
            ext |-> NULL, code |-> 0, resp |-> NoResponse]

GtinData == [gtin : {GoodGtin}, count : Counts] \cup [gtin : {BadGtin}, count : {1}]
GtinLists == UNION {[1..n -> GtinData] : n \in 0..MaxItems}

\* A return that leaves the transaction as it is.
Rollback_none(q) == q

\* tx.Rollback (deferred, DATABASE.sql:453): the uncommitted rows are dropped.
Rollback(q) == [q EXCEPT !.txOpen = FALSE, !.tx_order = NoOrder, !.tx_items = <<>>]

\* respondError (DATABASE.sql:594): the handler returns and the deferred Rollback runs.
KizError(q, code) == [Rollback(q) EXCEPT !.pc = "done", !.code = code]

\* handleKIZRequest: decode, db.Begin, getUserID, prepareOrder (DATABASE.sql:436-468).
handleKIZRequest_begin(k, t, gtins) ==
    /\ kiz[k].pc = "idle"
    /\ \A q \in 1..(k - 1) : kiz[q].pc # "idle"
    /\ LET userID == getUserID(t)
           q == [KizIdle EXCEPT !.telegram_id = t, !.gtins = gtins, !.txOpen = TRUE]
           prepared == prepareOrder(t, gtins)
       IN IF userID = 0
          THEN kiz' = [kiz EXCEPT ![k] = KizError(KizIdle, 401)]
          ELSE kiz' = [kiz EXCEPT ![k] = [q EXCEPT !.pc = "header", !.user_id = userID,
                                                   !.order = [prepared.order EXCEPT !.user_id = userID],
                                                   !.items = prepared.items]]
    /\ UNCHANGED <<db, seq, reg, pay, cb, trig, limiter>>

\* createOrderTx with the INSERT INTO orders run on the pool instead of the
\* transaction: the header is visible at once.
createOrderTx_header_db(k) ==
    /\ kiz[k].pc = "header"
    /\ seq' = [seq EXCEPT !.order = @ + 1]
    /\ IF OrderRowValid(kiz[k].order)
       THEN /\ kiz' = [kiz EXCEPT ![k].pc = "items", ![k].order_id = seq.order + 1,
                                  ![k].tx_order = kiz[k].order, ![k].headerInserted = TRUE]
            /\ orders' = ((seq.order + 1) :> kiz[k].order) @@ orders
       ELSE /\ kiz' = [kiz EXCEPT ![k] = KizError(kiz[k], 500)]
            /\ UNCHANGED orders
    /\ UNCHANGED <<users, order_items, payments, reg, pay, cb, trig, limiter>>

\* createOrderTx, the INSERT INTO orders (DATABASE.sql:370-383).
createOrderTx_header(k) ==
    /\ kiz[k].pc = "header"
    /\ seq' = [seq EXCEPT !.order = @ + 1]
    /\ IF OrderRowValid(kiz[k].order)
       THEN kiz' = [kiz EXCEPT ![k].pc = "items", ![k].order_id = seq.order + 1,
                               ![k].tx_order = kiz[k].order, ![k].headerInserted = TRUE]
       ELSE kiz' = [kiz EXCEPT ![k] = KizError(kiz[k], 500)]
    /\ UNCHANGED <<db, reg, pay, cb, trig, limiter>>

\* createOrderTx, one round of the loop of INSERT INTO order_items
\* (DATABASE.sql:385-398).
createOrderTx_item(k) ==
    /\ kiz[k].pc = "items"
    /\ Len(kiz[k].tx_items) < Len(kiz[k].items)
    /\ seq' = [seq EXCEPT !.item = @ + 1]
    /\ LET item == kiz[k].items[Len(kiz[k].tx_items) + 1]
           row == [id |-> seq.item + 1, order_id |-> kiz[k].order_id, gtin |-> item.gtin,
                   quantity |-> item.quantity, price |-> item.price]
       IN IF ItemRowValid(row)
          THEN kiz' = [kiz EXCEPT ![k].tx_items = Append(@, row)]
          ELSE kiz' = [kiz EXCEPT ![k] = KizError(kiz[k], 500)]
    /\ UNCHANGED <<db, reg, pay, cb, trig, limiter>>

\* The rows a committing transaction adds to a table.
ItemRows(rows) == [i \in {rows[n].id : n \in 1..Len(rows)} |->
                     LET row == CHOOSE x \in Range(rows) : x.id = i
                     IN [order_id |-> row.order_id, gtin |-> row.gtin,
                         quantity |-> row.quantity, price |-> row.price]]

\* handleKIZRequest with the external call moved in front of tx.Commit.
handleKIZRequest_commit_late(k, ok) ==
    /\ kiz[k].pc = "items"
    /\ Len(kiz[k].tx_items) = Len(kiz[k].items)
    /\ kiz' = [kiz EXCEPT ![k].pc = "external"]
    /\ UNCHANGED <<db, seq, reg, pay, cb, trig, limiter>>

\* tx.Commit of handleKIZRequest (DATABASE.sql:476-479): the order and its items
\* become visible together, or Commit fails and nothing does.
handleKIZRequest_commit(k, ok) ==
    /\ kiz[k].pc = "items"
    /\ Len(kiz[k].tx_items) = Len(kiz[k].items)
    /\ IF ok
       THEN /\ orders' = (kiz[k].order_id :> kiz[k].tx_order) @@ orders
            /\ order_items' = ItemRows(kiz[k].tx_items) @@ order_items
            /\ kiz' = [kiz EXCEPT ![k].pc = "external", ![k].txOpen = FALSE]
       ELSE /\ kiz' = [kiz EXCEPT ![k] = KizError(kiz[k], 500)]
            /\ UNCHANGED <<orders, order_items>>
    /\ UNCHANGED <<users, payments, seq, reg, pay, cb, trig, limiter>>

\* requestKIZFromExternalAPI (DATABASE.sql:496-500) stands for the call to the
\* code-issuing API: it returns the codes, or an error and no codes.
requestKIZFromExternalAPI(err) == IF err THEN <<>> ELSE <<"KIZ123456", "KIZ789012">>

\* handleKIZRequest answering a failed external call with an error and a
\* compensating delete of the order.
handleKIZRequest_respond_undo(k, err) ==
    /\ kiz[k].pc = "external"
    /\ IF err
       THEN /\ kiz' = [kiz EXCEPT ![k].pc = "done", ![k].code = 500, ![k].ext = "error"]
            /\ orders' = [o \in DOMAIN orders \ {kiz[k].order_id} |-> orders[o]]
            /\ order_items' = [i \in {j \in DOMAIN order_items :
                                        order_items[j].order_id # kiz[k].order_id}
                                 |-> order_items[i]]
       ELSE /\ kiz' = [kiz EXCEPT ![k].pc = "done", ![k].code = 201, ![k].ext = "ok",
                                  ![k].resp = [order_id |-> kiz[k].order_id, status |-> "created",
                                               kizs |-> requestKIZFromExternalAPI(err)]]
            /\ UNCHANGED <<orders, order_items>>
    /\ UNCHANGED <<users, payments, seq, reg, pay, cb, trig, limiter>>

\* The body of handleKIZRequest's 201 response (DATABASE.sql:488-492).
kizResponse(orderID, kizs) == [order_id |-> orderID, status |-> "created", kizs |-> kizs]

\* handleKIZRequest after Commit: the external call and the response
\* (DATABASE.sql:481-493).
handleKIZRequest_respond(k, err) ==
    /\ kiz[k].pc = "external"
    /\ kiz' = [kiz EXCEPT ![k].pc = "done", ![k].code = 201,
                          ![k].ext = IF err THEN "error" ELSE "ok",
                          ![k].resp = kizResponse(kiz[k].order_id, requestKIZFromExternalAPI(err))]
    /\ UNCHANGED <<db, seq, reg, pay, cb, trig, limiter>>

\* ------------------------------------------------------------ config.Load
\* Texts of the duration settings: unset, a duration, a number without a unit
\* (time.ParseDuration refuses it).
DurationTexts == {"", "45s", "15"}

\* time.ParseDuration on those texts (DATABASE.sql:224): seconds, or -1 for the
\* error.
ParseDuration(text) == CASE text = "45s" -> 45 [] OTHER -> -1

\* The process environment: os.Getenv gives "" for a variable that is not set.
ConfigEnvironments ==
    [SERVER_PORT : {"", "8081"}, SERVER_READ_TIMEOUT : DurationTexts,
     SERVER_WRITE_TIMEOUT : DurationTexts, SERVER_IDLE_TIMEOUT : DurationTexts,
     DB_HOST : {"", "test_host"}, DB_PORT : {"", "5433"}, DB_USER : {"", "znak"},
     DB_PASSWORD : {"", "test_password"}, DB_NAME : {"", "test_db"},
     DB_SSL_MODE : {"", "require"}, CHESTNY_ZNAK_API_URL : {"", "https://api.test"},
     CHESTNY_ZNAK_API_KEY : {"", "test_api_key"}, API_TIMEOUT : DurationTexts,
     LOG_LEVEL : {"", "debug"}, LOG_FILE : {"", "znak.log"}]

\* getEnv that returns the variable whether or not it is empty.
getEnv_noDefault(env, key, defaultValue) == env[key]

\* getEnv (DATABASE.sql:215-220).
getEnv(env, key, defaultValue) == IF env[key] # "" THEN env[key] ELSE defaultValue

\* getDurationEnv (DATABASE.sql:222-229), in seconds.
getDurationEnv(env, key, defaultValue) ==
    IF env[key] # "" /\ ParseDuration(env[key]) # -1 THEN ParseDuration(env[key])
    ELSE defaultValue

\* Config.validate (DATABASE.sql:205-213): TRUE for an error.
validate(cfg) == cfg.Database.Password = "" \/ cfg.API.APIKey = ""

\* The result of Load before it ran, and the configuration of a nil result.
NoConfig ==
    [Server |-> [Port |-> "", ReadTimeout |-> 0, WriteTimeout |-> 0, IdleTimeout |-> 0],
     Database |-> [Host |-> "", Port |-> "", User |-> "", Password |-> "", Name |-> "",
                   SSLMode |-> ""],
     API |-> [URL |-> "", APIKey |-> "", Timeout |-> 0],
     Logging |-> [Level |-> "", File |-> ""]]

\* Load (DATABASE.sql:171-203): the configuration, or nil and an error.
Load(env) ==
    LET cfg ==
          [Server |-> [Port |-> getEnv(env, "SERVER_PORT", "8080"),
                       ReadTimeout |-> getDurationEnv(env, "SERVER_READ_TIMEOUT", 15),
                       WriteTimeout |-> getDurationEnv(env, "SERVER_WRITE_TIMEOUT", 15),
                       IdleTimeout |-> getDurationEnv(env, "SERVER_IDLE_TIMEOUT", 60)],
           Database |-> [Host |-> getEnv(env, "DB_HOST", "localhost"),
                         Port |-> getEnv(env, "DB_PORT", "5432"),
                         User |-> getEnv(env, "DB_USER", "postgres"),
                         Password |-> getEnv(env, "DB_PASSWORD", ""),
                         Name |-> getEnv(env, "DB_NAME", "znak_db"),
                         SSLMode |-> getEnv(env, "DB_SSL_MODE", "disable")],
           API |-> [URL |-> getEnv(env, "CHESTNY_ZNAK_API_URL", "https://api.stage.mdlp.crpt.ru"),
                    APIKey |-> getEnv(env, "CHESTNY_ZNAK_API_KEY", ""),
                    Timeout |-> getDurationEnv(env, "API_TIMEOUT", 30)],
           Logging |-> [Level |-> getEnv(env, "LOG_LEVEL", "info"),
                        File |-> getEnv(env, "LOG_FILE", "")]]
    IN IF validate(cfg) THEN [cfg |-> NoConfig, isNil |-> TRUE, err |-> TRUE]
       ELSE [cfg |-> cfg, isNil |-> FALSE, err |-> FALSE]

\* ------------------------------------------------- routes and middleware
\* Request paths: the routes of setupRoutes (part_001:265-283) and a path that
\* no route matches.
DocsPaths == {"/docs/index.html"}
Paths ==
    {"/health", "/api/users/register", "/api/payments/callback", "/api/kizs",
     "/api/payments/create", "/nowhere"} \cup DocsPaths
Methods == {"GET", "POST", "OPTIONS"}
\* X-API-Key headers: absent, the key of the registered user, a key of nobody.
ApiKeys == {"", generateAPIKey(1), "key-of-nobody"}

\* The handler the mux of setupRoutes serves a path with (part_001:265-283).
muxHandler(path) ==
    CASE path = "/health" -> "healthCheckHandler"
      [] path = "/api/users/register" -> "registerUserHandler"
      [] path = "/api/payments/callback" -> "robokassaCallbackHandler"
      [] path = "/api/kizs" -> "kizHandler"
      [] path = "/api/payments/create" -> "createPaymentHandler"
      [] path \in DocsPaths -> "fileServer"
      [] OTHER -> "NotFound"

\* publicPaths[r.URL.Path] || strings.HasPrefix(r.URL.Path, "/docs/")
\* (part_001:849-856).
publicPath(path) ==
    \/ path \in {"/health", "/api/users/register", "/api/payments/callback", "/docs/"}
    \/ path \in DocsPaths

\* SELECT id FROM users WHERE api_key = $1 (part_001:872-873); 0 for no row.
userByAPIKey(apiKey) ==
    IF \E u \in DOMAIN users : users[u].api_key = apiKey
    THEN CHOOSE u \in DOMAIN users : users[u].api_key = apiKey
    ELSE 0

\* healthCheckHandler (part_001:299-314): it looks at the method and at nothing
\* else.
healthCheckHandler(method) ==
    IF method # "GET" THEN [code |-> 405, status |-> "method not supported"]
    ELSE [code |-> 200, status |-> "ok"]

\* The /health function that main registers with http.HandleFunc on the default
\* mux (part_001:1031-1043).  The server is given the handler of setupRoutes
\* (part_001:1003-1013), so no request is served by the default mux.
defaultMuxHealth(dbUp) ==
    IF ~dbUp THEN [code |-> 503, status |-> "error"] ELSE [code |-> 200, status |-> "ok"]

\* A request before the server saw it.
HttpRequest(path, method, apiKey, dbUp) ==
    [pc |-> "received", path |-> path, method |-> method, apiKey |-> apiKey, dbUp |-> dbUp,
     handler |-> "none", userID |-> 0, authenticated |-> FALSE, code |-> 0, status |-> ""]

HttpError(q, code, status) == [q EXCEPT !.pc = "served", !.code = code, !.status = status]

\* authMiddleware and the handler behind it (part_001:845-894): a public path or
\* an absent key goes on without a user id; a key goes on with the id of its
\* user, and is refused when no user has it or the query fails.  The response
\* of healthCheckHandler and of the mux's NotFound is written here; a request
\* for another handler is left at that handler.
authMiddleware(q) ==
    LET reach(ctx) ==
            LET h == muxHandler(ctx.path)
            IN IF h = "healthCheckHandler"
               THEN [ctx EXCEPT !.pc = "served", !.handler = h,
                                !.code = healthCheckHandler(ctx.method).code,
                                !.status = healthCheckHandler(ctx.method).status]
               ELSE IF h = "NotFound"
               THEN [ctx EXCEPT !.pc = "served", !.handler = h, !.code = 404,
                                !.status = "404 page not found"]
               ELSE [ctx EXCEPT !.pc = "handler", !.handler = h]
    IN IF publicPath(q.path) THEN reach(q)
       ELSE IF q.apiKey = "" THEN reach(q)
       ELSE IF ~q.dbUp \/ userByAPIKey(q.apiKey) = 0 THEN HttpError(q, 401, "unauthorized")
       ELSE reach([q EXCEPT !.userID = userByAPIKey(q.apiKey), !.authenticated = TRUE])

\* The burst of the limiter, the second argument of rateLimitMiddleware(10, 20)
\* (part_001:293), scaled down so that a few requests use it up.
burst == 1

\* rate.NewLimiter(rate.Limit(requestsPerSecond), burst) (part_001:898): a
\* bucket of b tokens that starts full.  forwarded counts the requests let
\* through since the bucket last gained a token.
NewLimiter(b) == [burst |-> b, tokens |-> b, forwarded |-> 0]

\* A limiter that lets every request through.
Allow_always(lim) == TRUE

\* limiter.Allow() (part_001:902): TRUE when a token is available.
Allow(lim) == lim.tokens >= 1

\* The limiter after a call of Allow: a token is taken when Allow is TRUE.
AfterAllow(lim) ==
    IF Allow(lim) THEN [lim EXCEPT !.tokens = @ - 1, !.forwarded = @ + 1] ELSE lim

\* Time passes: the bucket gains tokens at requestsPerSecond, never beyond its
\* burst (part_001:898).
Refill ==
    /\ limiter.tokens < limiter.burst
    /\ limiter' = [limiter EXCEPT !.tokens = @ + 1, !.forwarded = 0]
    /\ UNCHANGED <<db, seq, reg, kiz, pay, cb, trig>>

\* The chain of setupRoutes (part_001:285-293), outermost first:
\* rateLimitMiddleware (part_001:897-909), corsMiddleware (part_001:1107-1120),
\* logMiddleware, authMiddleware, mux.  One limiter serves every request.
ServeHTTP(r, path, method, apiKey, dbUp) ==
    /\ reg[r].pc = "idle"
    /\ \A q \in 1..(r - 1) : reg[q].pc # "idle"
    /\ LET q == HttpRequest(path, method, apiKey, dbUp)
       IN reg' = [reg EXCEPT ![r] =
                    IF ~Allow(limiter) THEN HttpError(q, 429, "too many requests")
                    ELSE IF method = "OPTIONS" THEN HttpError(q, 200, "")
                    ELSE authMiddleware(q)]
    /\ limiter' = AfterAllow(limiter)
    /\ UNCHANGED <<db, seq, kiz, pay, cb, trig>>

\* ------------------------------------------------- requestKIZs (models.go)
\* KIZResponse with Status "error" and a message (models.go:275-280): the codes
\* and the file paths keep their zero value.
KIZResponseError(message) ==
    [status |-> "error", message |-> message, kizs |-> <<>>, file_paths |-> <<>>]

\* generateKIZFiles (models.go:471-493): no file for no codes; failed is the
\* outcome of MkdirAll and generatePDF.
generateKIZFiles(kizs, failed) ==
    IF kizs = <<>> THEN [paths |-> <<>>, err |-> FALSE]
    ELSE IF failed THEN [paths |-> <<>>, err |-> TRUE]
    ELSE [paths |-> <<"kizs.pdf">>, err |-> FALSE]

\* client.Do with a request made without the context of the caller.
clientDo_background(env) == env.connErr

\* client.Do(req) for the request made by http.NewRequestWithContext(ctx, ...)
\* (models.go:431-446): TRUE for an error, which is a failed connection or a
\* context that is done before the call or while it is in flight.
clientDo(env) == env.connErr \/ env.ctxDone # "no"

\* requestKIZs (models.go:407-468).  env holds what the environment does: the
\* loading of key and certificate, the signing, the connection, the
\* cancellation of the request's context, and the status code and body of the
\* upstream's answer.
requestKIZs(env) ==
    IF env.keyErr THEN [resp |-> KIZResponseError("key"), err |-> TRUE]
    ELSE IF env.certErr THEN [resp |-> KIZResponseError("certificate"), err |-> TRUE]
    ELSE IF env.signErr THEN [resp |-> KIZResponseError("signature"), err |-> TRUE]
    ELSE IF clientDo(env) THEN [resp |-> KIZResponseError("connection"), err |-> TRUE]
    ELSE IF env.statusCode # 200
    THEN [resp |-> KIZResponseError("API returned " \o DecStr(env.statusCode)), err |-> TRUE]
    ELSE IF ~env.decodable THEN [resp |-> KIZResponseError("decoding"), err |-> TRUE]
    ELSE [resp |-> [status |-> env.body.status, message |-> env.body.message,
                    kizs |-> env.body.kizs,
                    file_paths |-> generateKIZFiles(env.body.kizs, env.filesErr).paths],
          err |-> FALSE]

\* What the environment of requestKIZs can do.
UpstreamBodies ==
    [status : {"ok"}, message : {""}, kizs : {<<>>, <<"kiz-1">>}]
Environments ==
    [keyErr : BOOLEAN, certErr : BOOLEAN, signErr : BOOLEAN, connErr : BOOLEAN,
     ctxDone : {"no", "before", "inflight"},
     statusCode : {200, 400, 500}, body : UpstreamBodies, decodable : BOOLEAN,
     filesErr : BOOLEAN]

\* Before the upstream is asked: no answer.
NoEnvironment ==
    [keyErr |-> FALSE, certErr |-> FALSE, signErr |-> FALSE, connErr |-> FALSE,
     ctxDone |-> "no", statusCode |-> 0, body |-> [status |-> "", message |-> "", kizs |-> <<>>],
     decodable |-> FALSE, filesErr |-> FALSE]

\* The zero value of KIZResponse (models.go:275-280).
NoKIZResponse == [status |-> "", message |-> "", kizs |-> <<>>, file_paths |-> <<>>]

\* Request bodies of handleKIZRequest in models.go, and whether they decode
\* into KIZRequestData (models.go:270-273).
NoKIZRequestData == [decodable |-> FALSE, gtin_data |-> <<>>, inn |-> ""]
KIZRequestDatas ==
    {NoKIZRequestData}
    \cup [decodable : {TRUE}, gtin_data : {<<>>, <<[gtin |-> GoodGtin, count |-> 1]>>},
          inn : {"", "7707083893"}]

\* handleKIZRequest of models.go (models.go:568-623): the whole handler.  It
\* writes the response of requestKIZs with status 200 whether or not
\* requestKIZs returned an error.
handleKIZRequest_models(k, methodPost, data, env) ==
    /\ kiz[k].pc = "idle"
    /\ \A q \in 1..(k - 1) : kiz[q].pc # "idle"
    /\ LET q == [pc |-> "returned", called |-> FALSE, code |-> 0, data |-> data,
                 env |-> NoEnvironment, resp |-> NoKIZResponse, err |-> FALSE]
       IN kiz' = [kiz EXCEPT ![k] =
                    IF ~methodPost THEN [q EXCEPT !.code = 405, !.data = NoKIZRequestData]
                    ELSE IF ~data.decodable THEN [q EXCEPT !.code = 400]
                    ELSE IF data.gtin_data = <<>> \/ data.inn = "" THEN [q EXCEPT !.code = 400]
                    ELSE LET r == requestKIZs(env)
                         IN [q EXCEPT !.called = TRUE, !.code = 200, !.env = env,
                                      !.resp = r.resp, !.err = r.err]]
    /\ UNCHANGED <<db, seq, reg, pay, cb, trig, limiter>>

\* ----------------------------------------------- createPayment (models.go)
\* PaymentResponse (models.go:287-291).
NoPaymentResponse == [status |-> "", message |-> "", payment_url |-> ""]
PaymentResponseError(message) == [status |-> "error", message |-> message, payment_url |-> ""]

\* Request bodies of handlePaymentRequest (models.go:282-285).
NoPaymentRequestData == [decodable |-> FALSE, amount |-> 0, order_id |-> ""]
PaymentRequestDatas ==
    {NoPaymentRequestData} \cup [decodable : {TRUE}, amount : {0, 100}, order_id : {"", "1"}]

\* createPayment (models.go:511-565): ctxDone is TRUE when ctx.Done() is closed
\* at the select.
createPayment(ctxDone, data) ==
    IF data.amount <= 0 THEN [resp |-> PaymentResponseError("amount"), err |-> TRUE]
    ELSE IF data.order_id = "" THEN [resp |-> PaymentResponseError("order id"), err |-> TRUE]
    ELSE IF ctxDone THEN [resp |-> PaymentResponseError("cancelled"), err |-> TRUE]
    ELSE [resp |-> [status |-> "success", message |-> "payment URL made",
                    payment_url |->
                       "MerchantLogin=" \o RobokassaLogin \o "&OutSum=" \o FmtG(data.amount)
                          \o "&InvId=" \o data.order_id \o "&SignatureValue="
                          \o createPaymentSignature(data.amount, data.order_id)],
          err |-> FALSE]

\* handlePaymentRequest (models.go:625-675): the whole handler.  idOk is FALSE
\* for a telegram_id parameter that is not a number.
handlePaymentRequest(h, methodPost, idOk, data, ctxDone) ==
    /\ pay[h].pc = "idle"
    /\ \A q \in 1..(h - 1) : pay[q].pc # "idle"
    /\ LET q == [pc |-> "returned", called |-> FALSE, code |-> 0, data |-> NoPaymentRequestData,
                 ctxDone |-> FALSE, resp |-> NoPaymentResponse, err |-> FALSE]
       IN pay' = [pay EXCEPT ![h] =
                    IF ~methodPost THEN [q EXCEPT !.code = 405]
                    ELSE IF ~idOk THEN [q EXCEPT !.code = 400]
                    ELSE IF ~data.decodable THEN [q EXCEPT !.code = 400]
                    ELSE LET r == createPayment(ctxDone, data)
                         IN [q EXCEPT !.called = TRUE, !.code = 200, !.data = data,
                                      !.ctxDone = ctxDone, !.resp = r.resp, !.err = r.err]]
    /\ UNCHANGED <<db, seq, reg, kiz, cb, trig, limiter>>

\* ----------------------------------------------------------------- trigger
\* The trigger function without "AND status = 'pending'" in its UPDATE.
update_order_status_on_payment_anyStatus(ords, old, new) ==
    IF new.status = "completed" /\ old.status # "completed"
    THEN [o \in DOMAIN ords |->
            IF o = new.order_id THEN [ords[o] EXCEPT !.status = "paid"] ELSE ords[o]]
    ELSE ords

\* The trigger function with "AND status <> 'paid'" in its UPDATE.
update_order_status_on_payment_notPaid(ords, old, new) ==
    IF new.status = "completed" /\ old.status # "completed"
    THEN [o \in DOMAIN ords |->
            IF o = new.order_id /\ ords[o].status # "paid"
            THEN [ords[o] EXCEPT !.status = "paid"]
            ELSE ords[o]]
    ELSE ords

\* update_order_status_on_payment (DATABASE.sql:97-106), run AFTER UPDATE ON
\* payments FOR EACH ROW in the updating statement's transaction: the table
\* orders after the trigger ran for the row update OLD -> new.
update_order_status_on_payment(ords, old, new) ==
    IF new.status = "completed" /\ old.status # "completed"
    THEN [o \in DOMAIN ords |->
            IF o = new.order_id /\ ords[o].status = "pending"
            THEN [ords[o] EXCEPT !.status = "paid"]
            ELSE ords[o]]
    ELSE ords

NoTrig == [fired |-> FALSE, payment |-> 0, old_status |-> NULL, new_status |-> NULL,
           order_id |-> 0, order_before |-> NULL]

\* What the trigger saw: the row update and the owning order's status before it.
TrigRecord(p, old, new) ==
    [fired |-> TRUE, payment |-> p, old_status |-> old.status, new_status |-> new.status,
     order_id |-> new.order_id,
     order_before |-> IF new.order_id \in DOMAIN orders THEN orders[new.order_id].status ELSE NULL]

\* -------------------------------------------------------- payment creation
PayIdle == [pc |-> "idle", handler |-> NULL, telegram_id |-> 0, amount |-> 0, order_id |-> 0,
            user_id |-> 0, txOpen |-> FALSE, payment_id |-> 0, inserted |-> FALSE,
            code |-> 0, url |-> NULL]

\* A payments table whose completed_at defaults to the time of the insert.
PaymentRow_stamped(orderID, userID, amount) ==
    [order_id |-> orderID, user_id |-> userID, amount |-> amount,
     status |-> PaymentStatusPending, transaction_id |-> NULL, completed_at |-> 1]

PaymentRow(orderID, userID, amount) ==
    [order_id |-> orderID, user_id |-> userID, amount |-> amount,
     status |-> PaymentStatusPending, transaction_id |-> NULL, completed_at |-> 0]

\* handlePayment: decode, db.Begin, getUserID (DATABASE.sql:502-525).
handlePayment_begin(h, t, amount, orderID) ==
    /\ pay[h].pc = "idle"
    /\ \A q \in 1..(h - 1) : pay[q].pc # "idle"
    /\ LET userID == getUserID(t)
           q == [PayIdle EXCEPT !.handler = "handlePayment", !.telegram_id = t,
                                !.amount = amount, !.order_id = orderID]
       IN IF userID = 0
          THEN pay' = [pay EXCEPT ![h] = [PayIdle EXCEPT !.pc = "done", !.code = 401,
                                                         !.handler = "handlePayment"]]
          ELSE pay' = [pay EXCEPT ![h] = [q EXCEPT !.pc = "tx", !.txOpen = TRUE,
                                                   !.user_id = userID]]
    /\ UNCHANGED <<db, seq, reg, kiz, cb, trig, limiter>>

\* Row.Scan into a Go string (DATABASE.sql:542, models.go:180): database/sql
\* converts any value but NULL.  TRUE when the Scan succeeds.
ScanString(v) == v # NULL

\* handlePayment, the INSERT INTO payments ... RETURNING id, transaction_id,
\* created_at and its Scan (DATABASE.sql:527-551).  order_id REFERENCES
\* orders(id); the inserted row has no transaction_id, and payment.TransactionID
\* is a string.  On an error the handler rolls back and answers 500.
handlePayment_insert(h) ==
    /\ pay[h].pc = "tx"
    /\ seq' = [seq EXCEPT !.payment = @ + 1]
    /\ IF /\ pay[h].order_id \in DOMAIN orders
          /\ ScanString(PaymentRow(pay[h].order_id, 0, pay[h].amount).transaction_id)
       THEN pay' = [pay EXCEPT ![h].pc = "inserted", ![h].payment_id = seq.payment + 1,
                               ![h].inserted = TRUE]
       ELSE pay' = [pay EXCEPT ![h].pc = "done", ![h].code = 500, ![h].txOpen = FALSE]
    /\ UNCHANGED <<db, reg, kiz, cb, trig, limiter>>

\* tx.Commit of handlePayment (DATABASE.sql:553-556), the step after a
\* successful Scan.
handlePayment_commit(h, ok) ==
    /\ pay[h].pc = "inserted"
    /\ IF ok
       THEN /\ payments' = (pay[h].payment_id :> PaymentRow(pay[h].order_id, 0, pay[h].amount))
                           @@ payments
            /\ pay' = [pay EXCEPT ![h].pc = "url", ![h].txOpen = FALSE]
       ELSE /\ pay' = [pay EXCEPT ![h].pc = "done", ![h].code = 500, ![h].txOpen = FALSE,
                                  ![h].inserted = FALSE]
            /\ UNCHANGED payments
    /\ UNCHANGED <<users, orders, order_items, seq, reg, kiz, cb, trig, limiter>>

\* generatePaymentURL (DATABASE.sql:569-572), without the constant prefix.
generatePaymentURL(paymentID, amount) ==
    "MerchantLogin=test&OutSum=" \o FmtG(amount) \o "&InvId=" \o Itoa(paymentID)
        \o "&SignatureValue=test"

\* handlePayment after Commit: the payment URL and the response (DATABASE.sql:558-565).
handlePayment_respond(h) ==
    /\ pay[h].pc = "url"
    /\ pay' = [pay EXCEPT ![h].pc = "done", ![h].code = 200,
                          ![h].url = generatePaymentURL(pay[h].payment_id, pay[h].amount)]
    /\ UNCHANGED <<db, seq, reg, kiz, cb, trig, limiter>>

\* The redirect URL of createPaymentHandler (part_001:673-682), without the
\* constant prefix and suffix.
redirectURL(amount, paymentID) ==
    "MerchantLogin=" \o RobokassaLogin \o "&OutSum=" \o FmtG(amount) \o "&InvId=" \o Itoa(paymentID)
        \o "&SignatureValue="
        \o Sha1Hex(RobokassaLogin \o ":" \o FmtG(amount) \o ":" \o Itoa(paymentID) \o ":" \o RobokassaPass)

\* The parameters of the redirect URL as they are written into it: Sprintf puts
\* the texts into the query without escaping them (part_001:675-682).
redirectQuery(amount, paymentID) ==
    [OutSum |-> FmtG(amount),
     InvId |-> Itoa(paymentID),
     SignatureValue |->
        Sha1Hex(RobokassaLogin \o ":" \o FmtG(amount) \o ":" \o Itoa(paymentID) \o ":" \o RobokassaPass)]

\* createPaymentHandler (part_001:601-691): the user lookup and the insert are
\* statements on the pool; users are never deleted, so the two are one step.
createPaymentHandler(h, t, amount) ==
    /\ pay[h].pc = "idle"
    /\ \A q \in 1..(h - 1) : pay[q].pc # "idle"
    /\ LET userID == getUserID(t)
           q == [PayIdle EXCEPT !.handler = "createPaymentHandler", !.telegram_id = t,
                                !.amount = amount, !.pc = "done"]
       IN IF amount <= 0
          THEN /\ pay' = [pay EXCEPT ![h] = [q EXCEPT !.code = 400]]
               /\ UNCHANGED <<payments, seq>>
          ELSE IF userID = 0
          THEN /\ pay' = [pay EXCEPT ![h] = [q EXCEPT !.code = 404]]
               /\ UNCHANGED <<payments, seq>>
          ELSE /\ seq' = [seq EXCEPT !.payment = @ + 1]
               /\ payments' = ((seq.payment + 1) :> PaymentRow(0, userID, amount)) @@ payments
               /\ pay' = [pay EXCEPT ![h] = [q EXCEPT !.code = 200, !.user_id = userID,
                                                      !.payment_id = seq.payment + 1,
                                                      !.inserted = TRUE,
                                                      !.url = redirectURL(amount, seq.payment + 1)]]
    /\ UNCHANGED <<users, orders, order_items, reg, kiz, cb, trig, limiter>>

\* createPaymentHandler run for a request that the chain left at it.
ServeHTTP_createPaymentHandler(r, h, t, amount) ==
    /\ reg[r].pc = "handler"
    /\ reg[r].handler = "createPaymentHandler"
    /\ reg[r].method = "POST"
    /\ reg[r].dbUp
    /\ h = r
    /\ createPaymentHandler(h, t, amount)

\* ---------------------------------------------------- robokassaCallbackHandler
CbIdle == [pc |-> "idle", invID |-> "", outSum |-> "", txid |-> "", forged |-> FALSE,
           missing |-> FALSE, method_ok |-> TRUE, payment_id |-> 0,
           code |-> 0, body |-> NULL, affected |-> 0, found |-> FALSE, raced |-> FALSE]

\* The acknowledgement Robokassa expects (part_001:748).
Ack(invID) == "OK" \o invID

\* The callback without its signature check.
VerifySignature_skipped(outSum, invID, signValue) == TRUE

\* The signature check that also looks the payment up and passes for a pending
\* payment only.
VerifySignature_pendingOnly(outSum, invID, signValue) ==
    /\ signValue = expectedSign(outSum, invID)
    /\ Atoi(invID) \in DOMAIN payments
    /\ payments[Atoi(invID)].status = "pending"

\* The signature check of the callback (part_001:715-720): TRUE when it passes.
VerifySignature(outSum, invID, signValue) == signValue = expectedSign(outSum, invID)

\* http.Error: status code and message.
CbReject(q, code, body) == [q EXCEPT !.pc = "done", !.code = code, !.body = body]

\* robokassaCallbackHandler up to strconv.Atoi (part_001:694-732).  forged and
\* missing record what was sent; a rejected request keeps nothing else.
robokassaCallbackHandler_receive(c, methodOk, invID, outSum, signValue, txid) ==
    /\ cb[c].pc = "idle"
    /\ \A q \in 1..(c - 1) : cb[q].pc # "idle"
    /\ LET q == [CbIdle EXCEPT !.forged = (signValue # Digest("shop:" \o outSum \o ":" \o invID \o ":secret")),
                               !.missing = (invID = "" \/ outSum = "" \/ signValue = ""),
                               !.method_ok = methodOk]
       IN cb' = [cb EXCEPT ![c] =
                  IF ~methodOk THEN CbReject(q, 405, "method not supported")
                  ELSE IF invID = "" \/ outSum = "" \/ signValue = ""
                  THEN CbReject(q, 400, "bad parameters")
                  ELSE IF ~VerifySignature(outSum, invID, signValue)
                  THEN CbReject(q, 403, "bad signature")
                  ELSE IF Atoi(invID) = -1
                  THEN CbReject([q EXCEPT !.invID = invID, !.outSum = outSum], 400, "bad payment id")
                  ELSE [q EXCEPT !.pc = "update", !.invID = invID, !.outSum = outSum,
                                 !.txid = txid, !.payment_id = Atoi(invID)]]
    /\ UNCHANGED <<db, seq, reg, kiz, pay, trig, limiter>>

\* r.FormValue of a parameter written raw into a query (part_001:702-706):
\* ParseForm unescapes it, and a plus sign stands for a space.  The only texts
\* with a plus sign are the amounts in exponent form; the hex digest and the
\* decimal id are left as they are.
FormValue(raw) ==
    IF \E a \in SignAmounts : a > 0 /\ raw = FmtGWith(a, "+")
    THEN FmtGWith(CHOOSE a \in SignAmounts : a > 0 /\ raw = FmtGWith(a, "+"), " ")
    ELSE raw

\* A GET callback whose query carries InvId, OutSum and SignatureValue as they
\* stand in the redirect URL returned to payment request h, and txid as
\* Shp_TransactionId.
CallbackFromRedirect(c, h, txid) ==
    /\ pay[h].pc = "done"
    /\ pay[h].handler = "createPaymentHandler"
    /\ pay[h].code = 200
    /\ LET q == redirectQuery(pay[h].amount, pay[h].payment_id)
       IN robokassaCallbackHandler_receive(c, TRUE, FormValue(q.InvId), FormValue(q.OutSum),
                                           FormValue(q.SignatureValue), txid)

\* The UPDATE of the callback with WHERE id = $2 alone.
CallbackWhere_byId(p, paymentID) == p = paymentID

\* The UPDATE of the callback for every payment that is pending or completed.
CallbackWhere_notFailed(p, paymentID) ==
    p = paymentID /\ payments[p].status \in {"pending", "completed"}

\* The WHERE clause of the callback's UPDATE (part_001:738).
CallbackWhere(p, paymentID) == p = paymentID /\ payments[p].status = "pending"

\* robokassaCallbackHandler: the UPDATE of payments with the trigger it fires, and
\* the acknowledgement (part_001:734-749).  time.Now() of request c is written c.
robokassaCallbackHandler_update(c) ==
    /\ cb[c].pc = "update"
    /\ LET hit == {p \in DOMAIN payments : CallbackWhere(p, cb[c].payment_id)}
           new == [p \in hit |-> [payments[p] EXCEPT !.status = "completed", !.completed_at = c,
                                                     !.transaction_id = cb[c].txid]]
       IN /\ payments' = new @@ payments
          /\ IF hit = {}
             THEN UNCHANGED <<orders, trig>>
             ELSE LET p == CHOOSE x \in hit : TRUE
                  IN /\ orders' = update_order_status_on_payment(orders, payments[p], new[p])
                     /\ trig' = TrigRecord(p, payments[p], new[p])
          /\ cb' = [cb EXCEPT ![c].pc = "done", ![c].code = 200, ![c].body = Ack(cb[c].invID),
                              ![c].affected = Cardinality(hit),
                              ![c].found = (cb[c].payment_id \in DOMAIN payments),
                              ![c].raced = \E d \in DOMAIN cb :
                                              d # c /\ cb[d].pc = "update"
                                              /\ cb[d].payment_id = cb[c].payment_id]
    /\ UNCHANGED <<users, order_items, seq, reg, kiz, pay, limiter>>

\* ------------------------------------------------------------ specifications
NoRequests ==
    /\ reg = [r \in 1..MaxReg |-> RegIdle]
    /\ kiz = [k \in 1..MaxKiz |-> KizIdle]
    /\ pay = [h \in 1..MaxPay |-> PayIdle]
    /\ cb = [c \in 1..MaxCb |-> CbIdle]
    /\ trig = NoTrig
    /\ limiter = NewLimiter(burst)

\* SpecReg: the registration handlers on the database as DATABASE.sql and
\* createTables leave it (no rows).
InitReg ==
    /\ users = <<>>
    /\ orders = <<>>
    /\ order_items = <<>>
    /\ payments = <<>>
    /\ seq = [user |-> 0, order |-> 0, item |-> 0, payment |-> 0, key |-> 0]
    /\ NoRequests

NextReg ==
    \/ \E r \in 1..MaxReg, t \in TelegramIds, inn \in Inns : registerUserHandler_check(r, t, inn)
    \/ \E r \in 1..MaxReg : registerUserHandler_save(r)
    \/ \E r \in 1..MaxReg, t \in TelegramIds, inn \in Inns : handleUserRegistration(r, t, inn)

SpecReg == InitReg /\ [][NextReg]_vars

\* The users table SpecReg reaches when the user with telegram_id 1 has
\* registered; telegram_id 2 stays unknown.
RegisteredUsers ==
    1 :> [telegram_id |-> 1, inn |-> "7707083893", api_key |-> generateAPIKey(1)]

\* Spec: orders, payment creation and callbacks once a user has registered.
\* handlePayment never gets past its Scan, so its Commit and the building of the
\* payment URL are not steps of any behaviour.
Init ==
    /\ users = RegisteredUsers
    /\ orders = <<>>
    /\ order_items = <<>>
    /\ payments = <<>>
    /\ seq = [user |-> 1, order |-> 0, item |-> 0, payment |-> 0, key |-> 1]
    /\ NoRequests

NextKiz(lists) ==
    \/ \E k \in 1..MaxKiz, t \in TelegramIds, gtins \in lists : handleKIZRequest_begin(k, t, gtins)
    \/ \E k \in 1..MaxKiz : createOrderTx_header(k)
    \/ \E k \in 1..MaxKiz : createOrderTx_item(k)
    \/ \E k \in 1..MaxKiz, ok \in BOOLEAN : handleKIZRequest_commit(k, ok)
    \/ \E k \in 1..MaxKiz, err \in BOOLEAN : handleKIZRequest_respond(k, err)

NextPayment ==
    \/ \E h \in 1..MaxPay, t \in TelegramIds, a \in Amounts, o \in 1..MaxKiz :
          handlePayment_begin(h, t, a, o)
    \/ \E h \in 1..MaxPay : handlePayment_insert(h)

NextCallback ==
    \/ \E c \in 1..MaxCb, m \in BOOLEAN, i \in InvIds, o \in OutSums, x \in TransactionIds :
          \E s \in SignValues(o, i) : robokassaCallbackHandler_receive(c, m, i, o, s, x)
    \/ \E c \in 1..MaxCb : robokassaCallbackHandler_update(c)

Next ==
    \/ NextKiz(GtinLists)
    \/ NextPayment
    \/ \E h \in 1..MaxPay, t \in TelegramIds, a \in Amounts : createPaymentHandler(h, t, a)
    \/ NextCallback

Spec == Init /\ [][Next]_vars

\* SpecOrder: the order requests alone, with every gtin_data list up to MaxItems.
SpecOrder == Init /\ [][NextKiz(GtinLists)]_vars

\* SpecTx: the two handlers that open a transaction and then call out, with
\* gtin_data lists of at most one entry.
ShortLists == {gtins \in GtinLists : Len(gtins) <= 1}

NextTx == NextKiz(ShortLists) \/ NextPayment

SpecTx == Init /\ [][NextTx]_vars

\* SpecFinish: the three handlers of DATABASE.sql that begin a transaction,
\* with one registration request.
NextFinish ==
    \/ NextTx
    \/ \E t \in TelegramIds, inn \in Inns : handleUserRegistration(1, t, inn)

SpecFinish == Init /\ [][NextFinish]_vars

\* SpecCb: the callbacks, on the database Spec reaches when order 1 was created
\* by handleKIZRequest and payments 1 and 2 by createPaymentHandler.
InitCb ==
    /\ users = RegisteredUsers
    /\ orders = 1 :> [user_id |-> 1, total_amount |-> 100, status |-> OrderStatusCreated]
    /\ order_items = 1 :> [order_id |-> 1, gtin |-> GoodGtin, quantity |-> 1, price |-> unitPrice]
    /\ payments = (1 :> PaymentRow(0, 1, 100)) @@ (2 :> PaymentRow(0, 1, 100))
    /\ seq = [user |-> 1, order |-> 1, item |-> 1, payment |-> 2, key |-> 1]
    /\ NoRequests

SpecCb == InitCb /\ [][NextCallback]_vars

\* SpecPay: payment creation by both handlers and the callbacks, with no orders.
NextPay ==
    \/ NextPayment
    \/ \E h \in 1..MaxPay, t \in TelegramIds, a \in Amounts : createPaymentHandler(h, t, a)
    \/ NextCallback

SpecPay == Init /\ [][NextPay]_vars

\* SpecApi: the handlers of models.go that ask the external API for codes and
\* build the payment URL.
NextApi ==
    \/ \E k \in 1..MaxKiz, m \in BOOLEAN, data \in KIZRequestDatas, env \in Environments :
          handleKIZRequest_models(k, m, data, env)
    \/ \E h \in 1..MaxPay, m \in BOOLEAN, idOk \in BOOLEAN, data \in PaymentRequestDatas,
          ctxDone \in BOOLEAN : handlePaymentRequest(h, m, idOk, data, ctxDone)

SpecApi == Init /\ [][NextApi]_vars

\* SpecHttp: requests to the server of part_001 through its middleware;
\* request r of createPaymentHandler is payment request r.
NextHttp ==
    \/ \E r \in 1..MaxReg, path \in Paths, method \in Methods, apiKey \in ApiKeys,
          dbUp \in BOOLEAN : ServeHTTP(r, path, method, apiKey, dbUp)
    \/ \E r \in 1..MaxReg, h \in 1..MaxPay, t \in TelegramIds, a \in Amounts :
          ServeHTTP_createPaymentHandler(r, h, t, a)
    \/ Refill

SpecHttp == Init /\ [][NextHttp]_vars

\* SpecRate: requests through rateLimitMiddleware while time passes.
RatePaths == {"/health", "/api/kizs"}
NextRate ==
    \/ \E r \in 1..MaxReg, path \in RatePaths, apiKey \in ApiKeys, dbUp \in BOOLEAN :
          ServeHTTP(r, path, "GET", apiKey, dbUp)
    \/ Refill

SpecRate == Init /\ [][NextRate]_vars

\* The call of Load at start-up, in any environment; trig holds the call and
\* its result.
LoadConfig ==
    /\ trig = NoTrig
    /\ \E env \in ConfigEnvironments :
          trig' = [fired |-> FALSE, loaded |-> TRUE, env |-> env, result |-> Load(env)]
    /\ UNCHANGED <<db, seq, reg, kiz, pay, cb, limiter>>

\* SpecConfig: config.Load in every environment.
NextConfig == LoadConfig

SpecConfig == Init /\ [][NextConfig]_vars

\* SpecSign: payments created by createPaymentHandler and the callbacks that
\* carry the parameters of their redirect URLs.
NextSign ==
    \/ \E h \in 1..MaxPay, t \in TelegramIds, a \in SignAmounts : createPaymentHandler(h, t, a)
    \/ \E c \in 1..MaxCb, h \in 1..MaxPay, x \in ShpTransactionIds : CallbackFromRedirect(c, h, x)
    \/ \E c \in 1..MaxCb : robokassaCallbackHandler_update(c)

SpecSign == Init /\ [][NextSign]_vars

\* SpecTrig: the trigger under every UPDATE of a payment's status, from every
\* pair of statuses of two payments of order 1 and every status of the orders.
UpdatePaymentStatus(p, status) ==
    /\ p \in DOMAIN payments
    /\ LET new == [payments[p] EXCEPT !.status = status]
       IN /\ payments' = [payments EXCEPT ![p] = new]
          /\ orders' = update_order_status_on_payment(orders, payments[p], new)
          /\ trig' = TrigRecord(p, payments[p], new)
    /\ UNCHANGED <<users, order_items, seq, reg, kiz, pay, cb, limiter>>

InitTrig ==
    /\ users = RegisteredUsers
    /\ orders \in [{1, 2} -> [user_id : {1}, total_amount : {100}, status : OrderStatuses]]
    /\ order_items = <<>>
    /\ payments \in [{1, 2} -> [order_id : {1}, user_id : {0}, amount : {100},
                                status : PaymentStatuses, transaction_id : {NULL},
                                completed_at : {0}]]
    /\ seq = [user |-> 1, order |-> 2, item |-> 0, payment |-> 2, key |-> 1]
    /\ NoRequests

NextTrig == \E p \in {1, 2}, status \in PaymentStatuses : UpdatePaymentStatus(p, status)

SpecTrig == InitTrig /\ [][NextTrig]_vars

\* ===================================================================== claims
\* sum(item.quantity * item.price) over a list of items.
RECURSIVE SumUpTo(_, _)
SumUpTo(items, n) ==
    IF n = 0 THEN 0 ELSE items[n].quantity * items[n].price + SumUpTo(items, n - 1)

ValidItemList(items) ==
    \A n \in 1..Len(items) : items[n].quantity > 0 /\ items[n].price >= 0

\* C4: for every valid item list, the total amount of the order prepareOrder
\* produces is the sum over the produced items of quantity * price, and
\* Order.CalculateTotal over the same items returns that value.
C4_TotalIsSumOfItems ==
    \A k \in 1..MaxKiz :
        (kiz[k].user_id # 0 /\ ValidItemList(kiz[k].items))
        => /\ kiz[k].order.total_amount = SumUpTo(kiz[k].items, Len(kiz[k].items))
           /\ CalculateTotal(kiz[k].items) = kiz[k].order.total_amount

\* C4 witness: an order of two entries with different counts was prepared and
\* committed with total 300.
C4_Witness ==
    \E k \in 1..MaxKiz :
        /\ kiz[k].pc = "done" /\ kiz[k].code = 201
        /\ Len(kiz[k].items) = 2
        /\ kiz[k].items[1].quantity = 2 /\ kiz[k].items[2].quantity = 1
        /\ orders[kiz[k].order_id].total_amount = 300

\* The visible item rows of order o.
ItemsOf(o) == {i \in DOMAIN order_items : order_items[i].order_id = o}

\* Every item of request k is a visible row of its order, and the order has no
\* other row.
RequestItemsPersisted(k) ==
    /\ Cardinality(ItemsOf(kiz[k].order_id)) = Len(kiz[k].items)
    /\ \A n \in 1..Len(kiz[k].items) :
          \E i \in ItemsOf(kiz[k].order_id) :
              order_items[i] = [order_id |-> kiz[k].order_id, gtin |-> kiz[k].items[n].gtin,
                                quantity |-> kiz[k].items[n].quantity,
                                price |-> kiz[k].items[n].price]

\* C3: order creation is all-or-nothing.  In every state the committed tables
\* hold an order row exactly when they hold all of its item rows: every order
\* has item rows, every item row has its order, and a request whose header was
\* inserted has either its order and all its items visible or none of them.  A
\* request answered 500 (a failed insert after the header, or a failed Commit)
\* has no visible order row and no visible item row.
C3_AllOrNothing ==
    /\ \A o \in DOMAIN orders : ItemsOf(o) # {}
    /\ \A i \in DOMAIN order_items : order_items[i].order_id \in DOMAIN orders
    /\ \A k \in 1..MaxKiz :
          kiz[k].headerInserted
          => /\ (kiz[k].order_id \in DOMAIN orders) <=> RequestItemsPersisted(k)
             /\ (kiz[k].order_id \notin DOMAIN orders) => ItemsOf(kiz[k].order_id) = {}
    /\ \A k \in 1..MaxKiz :
          (kiz[k].pc = "done" /\ kiz[k].code = 500)
          => /\ kiz[k].order_id \notin DOMAIN orders
             /\ ItemsOf(kiz[k].order_id) = {}

\* C3 witness: the second item insert of a request failed after the header and
\* the first item were inserted, and the request was answered 500.
C3_Witness ==
    \E k \in 1..MaxKiz :
        /\ kiz[k].pc = "done" /\ kiz[k].code = 500 /\ kiz[k].headerInserted
        /\ Len(kiz[k].items) = 2
        /\ ItemRowValid([gtin |-> kiz[k].items[1].gtin, quantity |-> kiz[k].items[1].quantity,
                         price |-> kiz[k].items[1].price])
        /\ kiz[k].items[2].gtin = BadGtin
        /\ seq.item = 2

\* C9: no transaction is open while an external call is in progress.  When
\* handleKIZRequest is at the call of requestKIZFromExternalAPI its transaction
\* is finished, and when handlePayment is at generatePaymentURL its
\* transaction is finished.
C9_NoTxDuringExternalCall ==
    /\ \A k \in 1..MaxKiz : kiz[k].pc = "external" => ~kiz[k].txOpen
    /\ \A h \in 1..MaxPay : pay[h].pc = "url" => ~pay[h].txOpen

\* C9 witness: handleKIZRequest has committed an order and is at the external call.
C9_Witness ==
    \E k \in 1..MaxKiz :
        /\ kiz[k].pc = "external"
        /\ kiz[k].order_id \in DOMAIN orders

\* C10: when the external call fails after the Commit, the request is answered
\* 201 with the order id, and the committed order and its items are still in the
\* tables as they were committed.
C10_OrderSurvivesFailedRetrieval ==
    \A k \in 1..MaxKiz :
        (kiz[k].pc = "done" /\ kiz[k].ext = "error")
        => /\ kiz[k].code = 201
           /\ kiz[k].resp.order_id = kiz[k].order_id
           /\ kiz[k].order_id \in DOMAIN orders
           /\ orders[kiz[k].order_id] = kiz[k].order
           /\ RequestItemsPersisted(k)

\* C10 witness: an order of two items was committed and the external call failed.
C10_Witness ==
    \E k \in 1..MaxKiz :
        /\ kiz[k].pc = "done" /\ kiz[k].ext = "error"
        /\ Len(kiz[k].items) = 2
        /\ kiz[k].order_id \in DOMAIN orders

\* C2: a GET or POST callback whose SignatureValue differs from the hash over
\* login:OutSum:InvId:password is rejected with 403 and never answered with the
\* acknowledgement, and it changes no row.
C2_ForgedAnswered403 ==
    \A c \in 1..MaxCb :
        (cb[c].forged /\ cb[c].method_ok)
        => /\ cb[c].pc = "done"
           /\ cb[c].code = 403
           /\ cb[c].body \notin {Ack(i) : i \in InvIds}
           /\ cb[c].affected = 0

\* The answer to a callback with a wrong SignatureValue: 405 for a method other
\* than GET and POST, else 400 when InvId, OutSum or SignatureValue is empty,
\* else 403.
ForgedCode(q) == IF ~q.method_ok THEN 405 ELSE IF q.missing THEN 400 ELSE 403

\* C2 (amended): a callback whose SignatureValue differs from the hash over
\* login:OutSum:InvId:password is rejected, with 403, or with 400 when one of
\* InvId, OutSum, SignatureValue is empty, or with 405 when the method is
\* neither GET nor POST; it is never answered with the acknowledgement, and the
\* step that receives it changes no row of any table.
C2_ForgedRejected ==
    /\ [](\A c \in 1..MaxCb :
            cb[c].forged
            => /\ cb[c].pc = "done"
               /\ cb[c].code = ForgedCode(cb[c])
               /\ cb[c].body \notin {Ack(i) : i \in InvIds}
               /\ cb[c].affected = 0)
    /\ [][\A c \in 1..MaxCb :
            (cb'[c].forged /\ ~cb[c].forged) => db' = db]_vars

\* C2 witness: a callback with all parameters present and a wrong signature was
\* answered 403 while the payments were pending, and another with an empty
\* SignatureValue was answered 400.
C2_Witness ==
    \E c, d \in 1..MaxCb :
        /\ cb[c].forged /\ ~cb[c].missing /\ cb[c].method_ok /\ cb[c].code = 403
        /\ cb[d].forged /\ cb[d].missing /\ cb[d].method_ok /\ cb[d].code = 400
        /\ \A p \in DOMAIN payments : payments[p].status = PaymentStatusPending

\* The callbacks that passed the checks for payment p and were answered.
AnsweredFor(p) == {c \in 1..MaxCb : cb[c].pc = "done" /\ cb[c].payment_id = p}

C5_TriggerPromotesPendingOrder ==
    [][trig'.fired
       => LET p == trig'.payment
              o == payments[p].order_id
          IN IF /\ payments[p].status # PaymentStatusCompleted
                /\ payments'[p].status = PaymentStatusCompleted
                /\ orders[o].status = OrderStatusPending
             THEN orders'[o].status = OrderStatusPaid
             ELSE orders'[o].status = orders[o].status]_vars

\* C5 witness: a pending payment of a pending order was completed and the order
\* is paid.
C5_Witness ==
    /\ trig.fired
    /\ trig.old_status = PaymentStatusPending /\ trig.new_status = PaymentStatusCompleted
    /\ trig.order_before = OrderStatusPending
    /\ orders[trig.order_id].status = OrderStatusPaid

\* C8: a registration with telegram_id > 0 and a non-empty inn for a
\* telegram_id that is registered already succeeds, returns the id of the
\* existing user and a new api_key; no telegram_id has two user rows.
C8_ReRegistrationSucceeds ==
    /\ \A r \in 1..MaxReg :
          (reg[r].pc = "done" /\ reg[r].telegram_id > 0 /\ reg[r].inn # "" /\ reg[r].existed)
          => /\ reg[r].code \in {200, 201}
             /\ reg[r].user_id = getUserID(reg[r].telegram_id)
             /\ reg[r].api_key # reg[r].prev_key
    /\ \A t \in TelegramIds :
          Cardinality({u \in DOMAIN users : users[u].telegram_id = t}) <= 1

\* C1: when two callbacks with the same InvId, OutSum and correct
\* SignatureValue were answered for a payment that was pending, exactly one of
\* them changed the payment, which is completed, both were answered with the
\* acknowledgement, and the order of the payment has status paid.
C1_DuplicateCallbackPaysOrder ==
    \A c, d \in 1..MaxCb :
        (/\ c # d
         /\ cb[c].pc = "done" /\ cb[d].pc = "done"
         /\ cb[c].found /\ cb[d].found
         /\ cb[c].invID = cb[d].invID /\ cb[c].outSum = cb[d].outSum
         /\ cb[c].affected + cb[d].affected >= 1
         /\ orders # <<>>)
        => LET p == cb[c].payment_id
           IN /\ payments[p].status = PaymentStatusCompleted
              /\ cb[c].affected + cb[d].affected = 1
              /\ cb[c].body = Ack(cb[c].invID) /\ cb[d].body = Ack(cb[d].invID)
              /\ payments[p].order_id \in DOMAIN orders
              /\ orders[payments[p].order_id].status = OrderStatusPaid

C12_PaymentOnlyForOwnedOrder ==
    \A h \in 1..MaxPay :
        (pay[h].pc = "done" /\ pay[h].payment_id \in DOMAIN payments)
        => LET row == payments[pay[h].payment_id]
           IN /\ row.order_id \in DOMAIN orders
              /\ orders[row.order_id].user_id = getUserID(pay[h].telegram_id)

\* C13: a payment row, in the step that creates it, references an order and
\* has that order's total_amount as its amount.
C13_AmountIsOrderTotal ==
    [][\A p \in DOMAIN payments' \ DOMAIN payments :
          /\ payments'[p].order_id \in DOMAIN orders'
          /\ payments'[p].amount = orders'[payments'[p].order_id].total_amount]_vars

\* A gtin_data list that is empty or has an entry with a count of 0 or less.
EmptyOrNonPositive(gtins) == gtins = <<>> \/ \E n \in 1..Len(gtins) : gtins[n].count <= 0

\* C14: a request whose gtin_data list is empty or holds a non-positive count
\* never reaches the external call, is answered with an error, and at no time
\* has an order row or an item row in the tables; Order.Validate reports an
\* error for the order assembled from it.
C14_InvalidListPersistsNothing ==
    \A k \in 1..MaxKiz :
        (kiz[k].user_id # 0 /\ EmptyOrNonPositive(kiz[k].gtins))
        => /\ kiz[k].pc # "external"
           /\ kiz[k].pc = "done" => kiz[k].code = 500
           /\ kiz[k].order_id \notin DOMAIN orders
           /\ ItemsOf(kiz[k].order_id) = {}
           /\ ~OrderValidate(kiz[k].order, kiz[k].items)

\* C14 witness: a list with counts 2 and -1 passed the header insert (total
\* 100) and the first item insert, and the request was answered 500 with the
\* tables empty; an empty list was possible as well.
C14_Witness ==
    \E k \in 1..MaxKiz :
        /\ kiz[k].pc = "done" /\ kiz[k].code = 500 /\ kiz[k].headerInserted
        /\ Len(kiz[k].gtins) = 2
        /\ kiz[k].gtins[1].count = 2 /\ kiz[k].gtins[2].count = -1
        /\ orders = <<>> /\ order_items = <<>>

\* C15: every callback that carries the InvId, OutSum and SignatureValue of the
\* redirect URL of a created payment passes the signature check and is
\* acknowledged (in SpecSign every callback is such a callback).
C15_RedirectCallbackAccepted ==
    \A c \in 1..MaxCb :
        cb[c].pc # "idle"
        => \/ cb[c].pc = "update"
           \/ cb[c].pc = "done" /\ cb[c].code = 200 /\ cb[c].body = Ack(cb[c].invID)

C17_PaymentStatusOnce ==
    [][/\ \A p \in DOMAIN payments' \ DOMAIN payments : payments'[p].status = "pending"
       /\ \A p \in DOMAIN payments :
             /\ p \in DOMAIN payments'
             /\ (payments'[p].status # payments[p].status
                    \/ payments'[p].completed_at # payments[p].completed_at)
                => /\ payments[p].status = "pending"
                   /\ payments'[p].status \in {"completed", "failed", "cancelled"}]_vars

\* Payment 1 was created by a request, completed by the first callback, and a
\* second callback for it was acknowledged without changing the row.
C17_Witness ==
    /\ \E h \in 1..MaxPay : pay[h].pc = "done" /\ pay[h].code = 200 /\ pay[h].payment_id = 1
    /\ 1 \in DOMAIN payments /\ payments[1].status = "completed" /\ payments[1].completed_at = 1
    /\ cb[2].pc = "done" /\ cb[2].code = 200 /\ cb[2].payment_id = 1 /\ cb[2].affected = 0

\* The place of a status on the path created, pending, paid, processed, completed.
StatusRank(status) ==
    CASE status = "created" -> 1
      [] status = "pending" -> 2
      [] status = "paid" -> 3
      [] status = "processed" -> 4
      [] status = "completed" -> 5
      [] OTHER -> 0

TerminalOrderStatuses == {"completed", "cancelled", "refunded"}

\* C18: a step that changes the status of an order moves it forward on the path
\* created, pending, paid, processed, completed, or to cancelled or refunded
\* from a status that is not terminal; an order that is completed, cancelled or
\* refunded keeps its status, and no order is removed.
C18_OrderStatusForward ==
    [][\A o \in DOMAIN orders :
          /\ o \in DOMAIN orders'
          /\ orders'[o].status # orders[o].status
             => /\ orders[o].status \notin TerminalOrderStatuses
                /\ \/ orders'[o].status \in {"cancelled", "refunded"}
                   \/ StatusRank(orders'[o].status) > StatusRank(orders[o].status)]_vars

\* The last UPDATE of a payment moved order 1 from pending to paid, next to an
\* order 2 in a terminal status.
C18_Witness ==
    /\ trig.fired /\ trig.order_id = 1 /\ trig.order_before = "pending"
    /\ orders[1].status = "paid"
    /\ orders[2].status \in TerminalOrderStatuses

\* C19: no two payment rows hold the same external transaction id.
C19_TransactionIdUnique ==
    \A p, q \in DOMAIN payments :
        (p # q /\ payments[p].transaction_id # NULL /\ payments[q].transaction_id # NULL)
        => payments[p].transaction_id # payments[q].transaction_id

\* C20: when the external API answered with a status other than 200,
\* requestKIZs returns an error and its response carries the codes that were in
\* the upstream's answer.
C20_PartialDataReturned ==
    \A k \in 1..MaxKiz :
        (/\ kiz[k].pc = "returned" /\ kiz[k].called
         /\ ~(kiz[k].env.keyErr \/ kiz[k].env.certErr \/ kiz[k].env.signErr \/ kiz[k].env.connErr)
         /\ kiz[k].env.ctxDone = "no"
         /\ kiz[k].env.statusCode # 200)
        => /\ kiz[k].err
           /\ kiz[k].resp.kizs = kiz[k].env.body.kizs

\* C21: a registration request with telegram_id <= 0 or an empty inn is answered
\* with a 4xx status in the step that receives it; that step leaves the users
\* table as it was, draws no API key and returns none.
C21_InvalidRegistrationRejected ==
    [][\A r \in 1..MaxReg :
          (/\ reg[r].pc = "idle" /\ reg'[r].pc # "idle"
           /\ (reg'[r].telegram_id <= 0 \/ reg'[r].inn = ""))
          => /\ reg'[r].pc = "done"
             /\ reg'[r].code \in 400..499
             /\ users' = users
             /\ seq'.key = seq.key /\ seq'.user = seq.user
             /\ reg'[r].api_key = NULL /\ reg'[r].user_id = 0]_vars

\* After a user registered, a request with telegram_id 0 and one with an empty
\* inn were refused, and the users table holds the one row.
C21_Witness ==
    /\ Cardinality(DOMAIN users) = 1
    /\ \E r \in 1..MaxReg :
          /\ reg[r].pc = "done" /\ reg[r].code = 400
          /\ (reg[r].telegram_id <= 0 \/ reg[r].inn = "")
          /\ \E q \in 1..(r - 1) : reg[q].pc = "done" /\ reg[q].code \in {200, 201}

\* C22: a GET /health that the server answered while the database connection
\* was down reports a failure, and one that reports ok found the database
\* reachable.
C22_HealthReportsDatabase ==
    \A r \in 1..MaxReg :
        (reg[r].pc = "served" /\ reg[r].path = "/health" /\ reg[r].method = "GET")
        => /\ ~reg[r].dbUp => (reg[r].status # "ok" /\ reg[r].code \notin 200..299)
           /\ reg[r].status = "ok" => reg[r].dbUp

\* C25: every request that reached the handler of a path that is not public
\* carried an X-API-Key that is the api_key of a user, and has the id of that
\* user in its context.
C25_HandlerBehindAuthHasUser ==
    \A r \in 1..MaxReg :
        (/\ reg[r].pc \in {"handler", "served"}
         /\ reg[r].handler \notin {"none", "NotFound"}
         /\ ~publicPath(reg[r].path))
        => /\ userByAPIKey(reg[r].apiKey) # 0
           /\ reg[r].userID = userByAPIKey(reg[r].apiKey)

\* The variables of the text settings and of the duration settings, with the
\* field each one fills and its default.
TextSettings ==
    {<<"SERVER_PORT", "Server", "Port", "8080">>, <<"DB_HOST", "Database", "Host", "localhost">>,
     <<"DB_PORT", "Database", "Port", "5432">>, <<"DB_USER", "Database", "User", "postgres">>,
     <<"DB_PASSWORD", "Database", "Password", "">>, <<"DB_NAME", "Database", "Name", "znak_db">>,
     <<"DB_SSL_MODE", "Database", "SSLMode", "disable">>,
     <<"CHESTNY_ZNAK_API_URL", "API", "URL", "https://api.stage.mdlp.crpt.ru">>,
     <<"CHESTNY_ZNAK_API_KEY", "API", "APIKey", "">>, <<"LOG_LEVEL", "Logging", "Level", "info">>,
     <<"LOG_FILE", "Logging", "File", "">>}
DurationSettings ==
    {<<"SERVER_READ_TIMEOUT", "Server", "ReadTimeout", 15>>,
     <<"SERVER_WRITE_TIMEOUT", "Server", "WriteTimeout", 15>>,
     <<"SERVER_IDLE_TIMEOUT", "Server", "IdleTimeout", 60>>,
     <<"API_TIMEOUT", "API", "Timeout", 30>>}

\* C23: Load returns an error and no configuration exactly when DB_PASSWORD or
\* CHESTNY_ZNAK_API_KEY is empty; otherwise every text setting is the value of
\* its variable when that is not empty and its default when it is, and every
\* duration setting is the parsed value of its variable when that is not empty
\* and parses, and its default otherwise.
C23_LoadValuesAndDefaults ==
    (trig # NoTrig /\ trig.loaded)
    => LET env == trig.env
           res == trig.result
       IN /\ res.err <=> (env.DB_PASSWORD = "" \/ env.CHESTNY_ZNAK_API_KEY = "")
          /\ res.isNil <=> res.err
          /\ ~res.err =>
               /\ \A s \in TextSettings :
                     res.cfg[s[2]][s[3]] = IF env[s[1]] # "" THEN env[s[1]] ELSE s[4]
               /\ \A s \in DurationSettings :
                     res.cfg[s[2]][s[3]] = IF env[s[1]] \in {"45s"} THEN 45 ELSE s[4]

\* The environment of TestLoadConfig with an unparsable read timeout: the four
\* variables of the test are returned, the read timeout and the SSL mode are
\* the defaults.
C23_Witness ==
    /\ trig # NoTrig /\ trig.loaded /\ ~trig.result.err
    /\ trig.env.SERVER_PORT = "8081" /\ trig.env.DB_HOST = "test_host"
    /\ trig.env.SERVER_READ_TIMEOUT = "15" /\ trig.env.DB_SSL_MODE = ""
    /\ trig.result.cfg.Server.Port = "8081"
    /\ trig.result.cfg.Server.ReadTimeout = 15
    /\ trig.result.cfg.Database.SSLMode = "disable"

\* C24: createPayment called with a context that is already cancelled returns
\* an error and a response with status error and no payment URL; requestKIZs
\* whose context is cancelled before or during the call to the external API
\* returns an error and a response with status error, no codes and no files.
C24_CancelledCallReturnsError ==
    /\ \A h \in 1..MaxPay :
          (pay[h].pc = "returned" /\ pay[h].called /\ pay[h].ctxDone)
          => /\ pay[h].err
             /\ pay[h].resp.status = "error"
             /\ pay[h].resp.payment_url = ""
    /\ \A k \in 1..MaxKiz :
          (kiz[k].pc = "returned" /\ kiz[k].called /\ kiz[k].env.ctxDone # "no")
          => /\ kiz[k].err
             /\ kiz[k].resp.status = "error"
             /\ kiz[k].resp.kizs = <<>>
             /\ kiz[k].resp.file_paths = <<>>

\* A valid payment request arrived with its context cancelled, and a request
\* for codes was cancelled in flight although the upstream had answered 200
\* with a code.
C24_Witness ==
    /\ \E h \in 1..MaxPay :
          /\ pay[h].pc = "returned" /\ pay[h].called /\ pay[h].ctxDone
          /\ pay[h].data.amount > 0 /\ pay[h].data.order_id # ""
    /\ \E k \in 1..MaxKiz :
          /\ kiz[k].pc = "returned" /\ kiz[k].called /\ kiz[k].env.ctxDone = "inflight"
          /\ ~(kiz[k].env.keyErr \/ kiz[k].env.certErr \/ kiz[k].env.signErr \/ kiz[k].env.connErr)
          /\ kiz[k].env.statusCode = 200 /\ kiz[k].env.decodable
          /\ kiz[k].env.body.kizs # <<>>

C27_TransactionFinished ==
    [][/\ \A k \in 1..MaxKiz :
            /\ kiz'[k].pc = "done" => ~kiz'[k].txOpen
            /\ (kiz[k].pc # "done" /\ kiz'[k].pc = "done" /\ kiz'[k].code # 201)
               => /\ db' = db
                  /\ kiz'[k].order_id \notin DOMAIN orders'
                  /\ \A i \in DOMAIN order_items' :
                        order_items'[i].order_id # kiz'[k].order_id
            /\ (kiz[k].pc = "external" /\ kiz'[k].pc = "done")
               => /\ db' = db
                  /\ kiz'[k].order_id \in DOMAIN orders'
                  /\ orders'[kiz'[k].order_id] = kiz'[k].tx_order
                  /\ \A n \in 1..Len(kiz'[k].tx_items) :
                        kiz'[k].tx_items[n].id \in DOMAIN order_items'
       /\ \A h \in 1..MaxPay :
            /\ pay'[h].pc = "done" => ~pay'[h].txOpen
            /\ (pay[h].pc # "done" /\ pay'[h].pc = "done" /\ pay'[h].code # 200)
               => /\ db' = db
                  /\ pay'[h].payment_id \notin DOMAIN payments'
       /\ \A r \in 1..MaxReg :
            (reg[r].pc = "idle" /\ reg'[r].pc = "done")
            => IF reg'[r].code = 201
               THEN /\ reg'[r].user_id \in DOMAIN users'
                    /\ users'[reg'[r].user_id].telegram_id = reg'[r].telegram_id
               ELSE db' = db]_vars

\* C27 witness: handleKIZRequest returned after its Commit, handlePayment
\* returned after the failure of its INSERT, and handleUserRegistration
\* returned after the failure of createUserTx.
C27_Witness ==
    /\ \E k \in 1..MaxKiz : kiz[k].pc = "done" /\ kiz[k].code = 201
                            /\ kiz[k].order_id \in DOMAIN orders
    /\ \E h \in 1..MaxPay : pay[h].pc = "done" /\ pay[h].code = 500
                            /\ pay[h].handler = "handlePayment" /\ seq.payment > 0
    /\ \E r \in 1..MaxReg : reg[r].pc = "done" /\ reg[r].code = 500
                            /\ reg[r].handler = "handleUserRegistration"

\* C28: whatever the order of the checks and the writes of concurrent
\* registerUserHandler requests, no two user rows have the same telegram_id,
\* and a request answered 200 returned the id of the row that has its
\* telegram_id.
C28_OneRowPerTelegramId ==
    /\ \A u \in DOMAIN users : \A v \in DOMAIN users :
          users[u].telegram_id = users[v].telegram_id => u = v
    /\ \A r \in 1..MaxReg :
          (reg[r].pc = "done" /\ reg[r].handler = "registerUserHandler" /\ reg[r].code = 200)
          => /\ reg[r].user_id \in DOMAIN users
             /\ users[reg[r].user_id].telegram_id = reg[r].telegram_id

\* C28 witness: two requests for one telegram_id both found no user, then both
\* ran their INSERT; one was answered 200 and the other 500.
C28_Witness ==
    \E r \in 1..MaxReg : \E s \in 1..MaxReg :
        /\ r # s
        /\ reg[r].handler = "registerUserHandler" /\ reg[s].handler = "registerUserHandler"
        /\ reg[r].telegram_id = reg[s].telegram_id
        /\ ~reg[r].exists /\ ~reg[s].exists
        /\ reg[r].pc = "done" /\ reg[r].code = 200
        /\ reg[s].pc = "done" /\ reg[s].code = 500
        /\ Cardinality(DOMAIN users) = 1

C30_CompletedAtIffCompleted ==
    \A p \in DOMAIN payments :
        (payments[p].completed_at # 0) <=> (payments[p].status = PaymentStatusCompleted)

\* C30 witness: a payment inserted by createPaymentHandler was completed by a
\* callback and carries that callback's time, after a first callback that named
\* it before it existed.
C30_Witness ==
    \E p \in DOMAIN payments : \E h \in 1..MaxPay :
        /\ pay[h].handler = "createPaymentHandler" /\ pay[h].payment_id = p
        /\ payments[p].status = PaymentStatusCompleted
        /\ payments[p].completed_at = 2
        /\ cb[1].pc = "done" /\ ~cb[1].found /\ cb[1].payment_id = p

====
